---------------------------- MODULE Spec2Model ----------------------------
(***************************************************************************)
(* secure-auth-api: the credential-authentication and session-lifecycle    *)
(* state machine of AuthController (register / login / refreshToken /      *)
(* logout), the TokenManager it signs and verifies tokens with, the        *)
(* authenticate middleware in front of logout, and the users table.        *)
(*                                                                         *)
(* Every handler is an async function: between two awaits it runs without  *)
(* interruption, and at every await other requests may run.  One action    *)
(* models one such uninterrupted stretch: the execution of the awaited     *)
(* query in the database together with the synchronous code that follows   *)
(* it up to the next await.  Time is in milliseconds (Date.now()); a JWT   *)
(* carries its times in whole seconds.                                     *)
(***************************************************************************)
EXTENDS Integers, FiniteSets, Sequences, TLC

VARIABLES
    now,        \* the wall clock, Date.now(), in milliseconds
    ticks,      \* how many times the clock has advanced
    secrets,    \* JWT_SECRET and JWT_REFRESH_SECRET of this process
    clients,    \* the emails requests are made for
    users,      \* the users table, keyed by the unique email column
    nextId,     \* the SERIAL sequence behind users.id
    req,        \* the request each connection is serving, with its locals
    last,       \* history: the latest response sent, and its request
    arrivals,   \* how many requests have arrived while others were possible
    wrongCount, \* history: wrong-password attempts since the last reset
    cleanLogin, \* history: a login succeeded and no failed login began since
    loggedOut   \* history: a logout completed and no login/register since

vars == <<now, ticks, secrets, clients, users, nextId, req, last, arrivals,
          wrongCount, cleanLogin, loggedOut>>

-----------------------------------------------------------------------------
(* Bounds of the model *)

MaxTicks == 2

MaxRequests == 3

(* The clock stops short of what a 32-bit integer holds: 2 * 7 days. *)
Horizon == 2 * (7 * 24 * 60 * 60 * 1000)

Procs == {"c1", "c2"}

Emails == {"a@x.com", "b@x.com"}

RegisterPasswords == {"Secur3!Pass"}

LoginPasswords == {"Secur3!Pass", "wrong"}

SecretValues == {"k1", "k2"}

-----------------------------------------------------------------------------
(* Program constants *)

SaltRounds == 12

LockThreshold == 5

LockMs == 15 * 60 * 1000

RefreshMs == 7 * 24 * 60 * 60 * 1000

AccessTtlSec == 15 * 60

RefreshTtlSec == 7 * 24 * 60 * 60

ExpiresIn == 900

Issuer == "secure-auth-api"

(* SQL NULL in a TIMESTAMP column *)
NullTs == -1

(* The clock may advance by half a second, by the lockout window or by the
   refresh-token lifetime. *)
Deltas == {500, LockMs, RefreshMs}

-----------------------------------------------------------------------------
(* bcryptjs *)

NoHash == [alg |-> "none", cost |-> 0, of |-> ""]

BcryptHash(password, rounds) == [alg |-> "bcrypt", cost |-> rounds, of |-> password]

BcryptCompare(password, hash) == hash.alg = "bcrypt" /\ hash.of = password

-----------------------------------------------------------------------------
(* jsonwebtoken and TokenManager.  A token is its signed payload; key is the
   secret its HS256 signature was made with.  Signing is deterministic: the
   same payload at the same second under the same secret is the same string. *)

NoToken == [userId |-> 0, email |-> "", type |-> "none", iat |-> 0, exp |-> 0,
            iss |-> "", key |-> ""]

NoPair == [accessToken |-> NoToken, refreshToken |-> NoToken, expiresIn |-> 0]

NowSec(t) == t \div 1000

JwtSign(payload, secret, ttlSec, t) ==
    [userId |-> payload.userId, email |-> payload.email, type |-> payload.type,
     iat |-> NowSec(t), exp |-> NowSec(t) + ttlSec, iss |-> Issuer, key |-> secret]

(* jwt.verify: the signature must be the secret's and the token unexpired *)
JwtVerify(token, secret, t) == token.key = secret /\ NowSec(t) < token.exp

generateAccessToken(userId, email, t) ==
    JwtSign([userId |-> userId, email |-> email, type |-> "access"],
            secrets.access, AccessTtlSec, t)

(* generateRefreshToken signed with the access token's '15m' *)
generateRefreshTokenShortLived(userId, t) ==
    JwtSign([userId |-> userId, email |-> "", type |-> "refresh"],
            secrets.refresh, AccessTtlSec, t)

generateRefreshToken(userId, t) ==
    JwtSign([userId |-> userId, email |-> "", type |-> "refresh"],
            secrets.refresh, RefreshTtlSec, t)

(* verifyAccessToken without its check of the type claim *)
verifyAccessTokenAnyType(token, t) == JwtVerify(token, secrets.access, t)

verifyAccessToken(token, t) ==
    JwtVerify(token, secrets.access, t) /\ token.type = "access"

verifyRefreshToken(token, t) ==
    JwtVerify(token, secrets.refresh, t) /\ token.type = "refresh"

(* What jwt.verify returns for a token it accepts: the payload signed *)
Decoded(token) ==
    [userId |-> token.userId, email |-> token.email, type |-> token.type]

generateTokenPair(userId, email, t) ==
    [accessToken |-> generateAccessToken(userId, email, t),
     refreshToken |-> generateRefreshToken(userId, t),
     expiresIn |-> ExpiresIn]

-----------------------------------------------------------------------------
(* The users table *)

NoRow == [id |-> 0, password_hash |-> NoHash, refresh_token |-> NoToken,
          refresh_token_expires |-> NullTs, failed_login_attempts |-> 0,
          account_locked_until |-> NullTs, last_login |-> NullTs]

Exists(e) == users[e].id # 0

EmailsOfId(id) == {e \in Emails : users[e].id = id /\ id # 0}

(* UpdateSession writing the token and leaving the expiry as it is *)
UpdateSessionTokenOnly(id, token, expires) ==
    [e \in Emails |->
        IF users[e].id = id /\ id # 0
        THEN [users[e] EXCEPT !.refresh_token = token]
        ELSE users[e]]

(* UpdateSession writing the expiry and leaving the token as it is *)
UpdateSessionExpiryOnly(id, token, expires) ==
    [e \in Emails |->
        IF users[e].id = id /\ id # 0
        THEN [users[e] EXCEPT !.refresh_token_expires = expires]
        ELSE users[e]]

(* UpdateSession with the WHERE clause left out *)
UpdateSessionEveryRow(id, token, expires) ==
    [e \in Emails |->
        IF users[e].id # 0 /\ id # 0
        THEN [users[e] EXCEPT !.refresh_token = token,
                              !.refresh_token_expires = expires]
        ELSE users[e]]

(* UPDATE users SET refresh_token = $1, refresh_token_expires = $2 WHERE id = $3 *)
UpdateSession(id, token, expires) ==
    [e \in Emails |->
        IF users[e].id = id /\ id # 0
        THEN [users[e] EXCEPT !.refresh_token = token,
                              !.refresh_token_expires = expires]
        ELSE users[e]]

(* UpdateLockout writing the counter and leaving the lock as it is *)
UpdateLockoutCounterOnly(id, attempts, lockedUntil) ==
    [e \in Emails |->
        IF users[e].id = id /\ id # 0
        THEN [users[e] EXCEPT !.failed_login_attempts = attempts]
        ELSE users[e]]

(* UpdateLockout ending the session of an account it locks *)
UpdateLockoutRevoking(id, attempts, lockedUntil) ==
    [e \in Emails |->
        IF users[e].id = id /\ id # 0
        THEN [users[e] EXCEPT !.failed_login_attempts = attempts,
                              !.account_locked_until = lockedUntil,
                              !.refresh_token =
                                  IF lockedUntil # NullTs THEN NoToken ELSE @,
                              !.refresh_token_expires =
                                  IF lockedUntil # NullTs THEN NullTs ELSE @]
        ELSE users[e]]

(* UPDATE users SET failed_login_attempts = $1, account_locked_until = $2 WHERE id = $3 *)
UpdateLockout(id, attempts, lockedUntil) ==
    [e \in Emails |->
        IF users[e].id = id /\ id # 0
        THEN [users[e] EXCEPT !.failed_login_attempts = attempts,
                              !.account_locked_until = lockedUntil]
        ELSE users[e]]

(* UPDATE users SET failed_login_attempts = 0, account_locked_until = NULL,
   last_login = NOW() WHERE id = $1 *)
ResetLockout(id, t) ==
    [e \in Emails |->
        IF users[e].id = id /\ id # 0
        THEN [users[e] EXCEPT !.failed_login_attempts = 0,
                              !.account_locked_until = NullTs,
                              !.last_login = t]
        ELSE users[e]]

-----------------------------------------------------------------------------
(* Requests *)

(* A connection with no request, and the shape of a request's locals.
   lockedAtCall, late and peerWon are history: what was true of the request
   when it arrived or while it ran. *)
Idle == [op |-> "none", pc |-> "idle", email |-> "", password |-> "",
         presented |-> NoToken, uid |-> 0, hash |-> NoHash, failed |-> 0,
         newFailed |-> 0, lockUntil |-> NullTs, out |-> NoPair,
         expiry |-> NullTs, lockedAtCall |-> FALSE, late |-> FALSE,
         peerWon |-> FALSE]

NoResponse == [op |-> "none", status |-> 0, message |-> "", email |-> "",
               password |-> "", presented |-> NoToken, out |-> NoPair,
               lockedAtCall |-> FALSE, late |-> FALSE, peerWon |-> FALSE]

Free(p) == req[p].pc = "idle"

Quiet == \A p \in Procs : Free(p)

(* res.status(s).json({message: m, ...}) *)
Response(r, s, m, pair) ==
    [op |-> r.op, status |-> s, message |-> m, email |-> r.email,
     password |-> r.password, presented |-> r.presented, out |-> pair,
     lockedAtCall |-> r.lockedAtCall, late |-> r.late, peerWon |-> r.peerWon]

-----------------------------------------------------------------------------
Init ==
    /\ now = 1000
    /\ ticks = 0
    /\ secrets \in {[access |-> "k1", refresh |-> k] : k \in SecretValues}
    /\ clients = {"a@x.com"}
    /\ users = [e \in Emails |-> NoRow]
    /\ nextId = 1
    /\ req = [p \in Procs |-> Idle]
    /\ last = NoResponse
    /\ arrivals = 0
    /\ wrongCount = [e \in Emails |-> 0]
    /\ cleanLogin = [e \in Emails |-> FALSE]
    /\ loggedOut = [e \in Emails |-> FALSE]

Tick ==
    /\ ticks < MaxTicks
    /\ \E d \in Deltas :
        /\ now + d <= Horizon
        /\ now' = now + d
    /\ ticks' = ticks + 1
    /\ UNCHANGED <<secrets, clients, users, nextId, req, last, arrivals, wrongCount,
                   cleanLogin, loggedOut>>

-----------------------------------------------------------------------------
(* AuthController.login *)

(* AccountLocked with its comparison the wrong way round *)
AccountLockedReversed(row, t) ==
    row.account_locked_until # NullTs /\ t > row.account_locked_until

(* user.account_locked_until && new Date() < new Date(user.account_locked_until) *)
AccountLocked(row, t) ==
    row.account_locked_until # NullTs /\ t < row.account_locked_until

(* LockUntil locking one attempt early *)
LockUntilEarly(newFailedAttempts, t) ==
    IF newFailedAttempts >= LockThreshold - 1 THEN t + LockMs ELSE NullTs

(* LockUntil locking one attempt late: > in place of >= *)
LockUntilLate(newFailedAttempts, t) ==
    IF newFailedAttempts > LockThreshold THEN t + LockMs ELSE NullTs

(* LockUntil locking only the attempt that reaches the threshold: = in place of >= *)
LockUntilOnce(newFailedAttempts, t) ==
    IF newFailedAttempts = LockThreshold THEN t + LockMs ELSE NullTs

(* LockUntil with a lock that grows with every attempt past the threshold *)
LockUntilBackoff(newFailedAttempts, t) ==
    IF newFailedAttempts >= LockThreshold
    THEN t + (newFailedAttempts - LockThreshold + 1) * LockMs
    ELSE NullTs

(* Lock account after 5 failed attempts for 15 minutes *)
LockUntil(newFailedAttempts, t) ==
    IF newFailedAttempts >= LockThreshold THEN t + LockMs ELSE NullTs

(* LoginNoUser telling the caller that the email has no record *)
LoginNoUserNotFound(r) == Response(r, 404, "User not found", NoPair)

(* result.rows.length === 0: the answer to a login for an unknown email *)
LoginNoUser(r) == Response(r, 401, "Invalid credentials", NoPair)

(* The SELECT by email, the 401 for an unknown email and the lock check *)
LoginSelect(p, e, pw) ==
    /\ Free(p)
    /\ LET r0 == [Idle EXCEPT !.op = "login", !.email = e, !.password = pw,
                              !.uid = users[e].id,
                              !.lockedAtCall =
                                  /\ users[e].account_locked_until # NullTs
                                  /\ now < users[e].account_locked_until]
       IN IF ~Exists(e)
          THEN /\ last' = LoginNoUser(r0)
               /\ req' = req
          ELSE IF AccountLocked(users[e], now)
          THEN /\ last' = Response(r0, 403, "Account temporarily locked due to multiple failed login attempts", NoPair)
               /\ req' = req
          ELSE /\ req' = [req EXCEPT ![p] =
                            [r0 EXCEPT !.pc = "login_compare",
                                       !.hash = users[e].password_hash,
                                       !.failed = users[e].failed_login_attempts]]
               /\ last' = last
    /\ cleanLogin' = [cleanLogin EXCEPT ![e] =
                        IF Exists(e) /\ ~BcryptCompare(pw, users[e].password_hash)
                        THEN FALSE ELSE @]
    /\ UNCHANGED <<now, ticks, secrets, clients, users, nextId, wrongCount, loggedOut>>

(* bcrypt.compare resolves; on a mismatch the new counter and lock are computed *)
LoginCompare(p) ==
    /\ req[p].pc = "login_compare"
    /\ req' = [req EXCEPT ![p] =
                IF ~BcryptCompare(req[p].password, req[p].hash)
                THEN [@ EXCEPT !.pc = "login_fail",
                               !.hash = NoHash,
                               !.newFailed = req[p].failed + 1,
                               !.failed = 0,
                               !.lockUntil = LockUntil(req[p].failed + 1, now)]
                ELSE [@ EXCEPT !.pc = "login_reset", !.hash = NoHash, !.failed = 0]]
    /\ UNCHANGED <<now, ticks, secrets, clients, users, nextId, last, wrongCount,
                   cleanLogin, loggedOut>>

(* The UPDATE of the counter and the lock, then 401 *)
LoginFail(p) ==
    /\ req[p].pc = "login_fail"
    /\ users' = UpdateLockout(req[p].uid, req[p].newFailed, req[p].lockUntil)
    /\ last' = Response(req[p], 401, "Invalid credentials", NoPair)
    /\ req' = [req EXCEPT ![p] = Idle]
    /\ wrongCount' = [wrongCount EXCEPT ![req[p].email] = @ + 1]
    /\ UNCHANGED <<now, ticks, secrets, clients, nextId, cleanLogin, loggedOut>>

(* The UPDATE that resets the counter, then the new token pair *)
LoginReset(p) ==
    /\ req[p].pc = "login_reset"
    /\ users' = ResetLockout(req[p].uid, now)
    /\ req' = [req EXCEPT ![p] =
                [@ EXCEPT !.pc = "login_store",
                          !.out = generateTokenPair(req[p].uid, req[p].email, now),
                          !.expiry = now + RefreshMs]]
    /\ wrongCount' = [wrongCount EXCEPT ![req[p].email] = 0]
    /\ UNCHANGED <<now, ticks, secrets, clients, nextId, last, cleanLogin, loggedOut>>

(* The UPDATE that stores the refresh token, then 200 *)
LoginStore(p) ==
    /\ req[p].pc = "login_store"
    /\ users' = UpdateSession(req[p].uid, req[p].out.refreshToken, req[p].expiry)
    /\ last' = Response(req[p], 200, "Login successful", req[p].out)
    /\ req' = [req EXCEPT ![p] = Idle]
    /\ cleanLogin' = [cleanLogin EXCEPT ![req[p].email] = TRUE]
    /\ loggedOut' = [loggedOut EXCEPT ![req[p].email] = FALSE]
    /\ UNCHANGED <<now, ticks, secrets, clients, nextId, wrongCount>>

-----------------------------------------------------------------------------
(* AuthController.register *)

(* The SELECT by email, the 409, and bcrypt.hash *)
RegisterSelect(p, e, pw) ==
    /\ Free(p)
    /\ LET r0 == [Idle EXCEPT !.op = "register", !.email = e, !.password = pw]
       IN IF Exists(e)
          THEN /\ last' = Response(r0, 409, "User already exists", NoPair)
               /\ req' = req
          ELSE /\ req' = [req EXCEPT ![p] =
                            [r0 EXCEPT !.pc = "register_insert",
                                       !.hash = BcryptHash(pw, SaltRounds)]]
               /\ last' = last
    /\ UNCHANGED <<now, ticks, secrets, clients, users, nextId, wrongCount,
                   cleanLogin, loggedOut>>

(* The INSERT (email is UNIQUE: a second row for it throws, and the catch
   answers 500), then the token pair *)
RegisterInsert(p) ==
    /\ req[p].pc = "register_insert"
    /\ nextId' = nextId + 1
    /\ IF Exists(req[p].email)
       THEN /\ last' = Response(req[p], 500, "Registration failed", NoPair)
            /\ req' = [req EXCEPT ![p] = Idle]
            /\ users' = users
       ELSE /\ users' = [users EXCEPT ![req[p].email] =
                            [NoRow EXCEPT !.id = nextId, !.password_hash = req[p].hash]]
            /\ req' = [req EXCEPT ![p] =
                        [@ EXCEPT !.pc = "register_store", !.uid = nextId,
                                  !.hash = NoHash,
                                  !.out = generateTokenPair(nextId, req[p].email, now),
                                  !.expiry = now + RefreshMs]]
            /\ last' = last
    /\ UNCHANGED <<now, ticks, secrets, clients, wrongCount, cleanLogin, loggedOut>>

(* The UPDATE that stores the refresh token, then 201 *)
RegisterStore(p) ==
    /\ req[p].pc = "register_store"
    /\ users' = UpdateSession(req[p].uid, req[p].out.refreshToken, req[p].expiry)
    /\ last' = Response(req[p], 201, "User registered successfully", req[p].out)
    /\ req' = [req EXCEPT ![p] = Idle]
    /\ loggedOut' = [loggedOut EXCEPT ![req[p].email] = FALSE]
    /\ UNCHANGED <<now, ticks, secrets, clients, nextId, wrongCount, cleanLogin>>

-----------------------------------------------------------------------------
(* AuthController.refreshToken *)

(* new Date(null) is the epoch *)
DateOf(ts) == IF ts = NullTs THEN 0 ELSE ts

(* RefreshRejected without the comparison with the stored token *)
RefreshRejectedExpiryOnly(row, token, t) ==
    t > DateOf(row.refresh_token_expires)

(* RefreshRejected refusing also the token of an account that is locked *)
RefreshRejectedWhileLocked(row, token, t) ==
    \/ row.refresh_token # token
    \/ t > DateOf(row.refresh_token_expires)
    \/ (row.account_locked_until # NullTs /\ t < row.account_locked_until)

(* user.refresh_token !== refreshToken || new Date() > new Date(user.refresh_token_expires) *)
RefreshRejected(row, token, t) ==
    row.refresh_token # token \/ t > DateOf(row.refresh_token_expires)

(* generateTokenPair mints both tokens of a pair at the same instant for the
   same user: each determines the other. *)
RefreshTwin(tok) ==
    [tok EXCEPT !.type = "refresh", !.email = "", !.exp = tok.iat + RefreshTtlSec,
                !.key = secrets.refresh]

AccessTwin(tok, e) ==
    [tok EXCEPT !.type = "access", !.email = e, !.exp = tok.iat + AccessTtlSec,
                !.key = secrets.access]

(* The tokens a client can present: those of the latest response and its
   request, those now stored, and the other half of each one's pair. *)
Held ==
    LET seen == ({last.presented, last.out.accessToken, last.out.refreshToken}
                 \cup {users[e].refresh_token : e \in Emails}) \ {NoToken}
    IN {RefreshTwin(t) : t \in seen}
       \cup UNION {{AccessTwin(t, e) : e \in EmailsOfId(t.userId)} : t \in seen}

(* TokenManager.verifyRefreshToken throws into the catch (401) or passes *)
RefreshVerify(p, tok) ==
    /\ Free(p)
    /\ LET r0 == [Idle EXCEPT !.op = "refresh", !.presented = tok,
                              !.late = /\ last.op = "refresh"
                                       /\ last.status = 200
                                       /\ last.presented = tok]
       IN IF ~verifyRefreshToken(tok, now)
          THEN /\ last' = Response(r0, 401, "Token refresh failed", NoPair)
               /\ req' = req
          ELSE /\ req' = [req EXCEPT ![p] =
                            [r0 EXCEPT !.pc = "refresh_select", !.uid = tok.userId]]
               /\ last' = last
    /\ UNCHANGED <<now, ticks, secrets, clients, users, nextId, wrongCount,
                   cleanLogin, loggedOut>>

(* RefreshSelect ending the stored session when the token presented is not
   the stored one or the stored expiry has passed *)
RefreshSelectRevoking(p) ==
    /\ req[p].pc = "refresh_select"
    /\ LET found == EmailsOfId(req[p].uid)
       IN IF found = {}
          THEN /\ last' = Response(req[p], 401, "Invalid refresh token", NoPair)
               /\ req' = [req EXCEPT ![p] = Idle]
               /\ users' = users
          ELSE LET e == CHOOSE x \in found : TRUE
               IN IF RefreshRejected(users[e], req[p].presented, now)
                  THEN /\ last' = Response(req[p], 401, "Invalid or expired refresh token", NoPair)
                       /\ req' = [req EXCEPT ![p] = Idle]
                       /\ users' = UpdateSession(req[p].uid, NoToken, NullTs)
                  ELSE /\ req' = [req EXCEPT ![p] =
                                    [@ EXCEPT !.pc = "refresh_store", !.email = e,
                                              !.out = generateTokenPair(users[e].id, e, now),
                                              !.expiry = now + RefreshMs]]
                       /\ last' = last
                       /\ users' = users
    /\ UNCHANGED <<now, ticks, secrets, clients, nextId, wrongCount,
                   cleanLogin, loggedOut>>

(* The SELECT by id, the match and expiry check, then the new token pair *)
RefreshSelect(p) ==
    /\ req[p].pc = "refresh_select"
    /\ LET found == EmailsOfId(req[p].uid)
       IN IF found = {}
          THEN /\ last' = Response(req[p], 401, "Invalid refresh token", NoPair)
               /\ req' = [req EXCEPT ![p] = Idle]
          ELSE LET e == CHOOSE x \in found : TRUE
               IN IF RefreshRejected(users[e], req[p].presented, now)
                  THEN /\ last' = Response(req[p], 401, "Invalid or expired refresh token", NoPair)
                       /\ req' = [req EXCEPT ![p] = Idle]
                  ELSE /\ req' = [req EXCEPT ![p] =
                                    [@ EXCEPT !.pc = "refresh_store", !.email = e,
                                              !.out = generateTokenPair(users[e].id, e, now),
                                              !.expiry = now + RefreshMs]]
                       /\ last' = last
    /\ UNCHANGED <<now, ticks, secrets, clients, users, nextId, wrongCount,
                   cleanLogin, loggedOut>>

(* The UPDATE that stores the new refresh token, then 200.  Every other
   refresh of the same token still being served learns that a peer won. *)
RefreshStore(p) ==
    /\ req[p].pc = "refresh_store"
    /\ users' = UpdateSession(req[p].uid, req[p].out.refreshToken, req[p].expiry)
    /\ last' = Response(req[p], 200, "", req[p].out)
    /\ req' = [q \in Procs |->
                IF q = p THEN Idle
                ELSE IF req[q].op = "refresh" /\ req[q].presented = req[p].presented
                THEN [req[q] EXCEPT !.peerWon = TRUE]
                ELSE req[q]]
    /\ UNCHANGED <<now, ticks, secrets, clients, nextId, wrongCount, cleanLogin, loggedOut>>

-----------------------------------------------------------------------------
(* authenticate, then AuthController.logout *)

(* The middleware verifies the bearer token (401) or lets the handler run *)
LogoutAuthenticate(p, tok) ==
    /\ Free(p)
    /\ LET r0 == [Idle EXCEPT !.op = "logout", !.presented = tok]
       IN IF ~verifyAccessToken(tok, now)
          THEN /\ last' = Response(r0, 401, "Invalid or expired token", NoPair)
               /\ req' = req
          ELSE /\ req' = [req EXCEPT ![p] =
                            [r0 EXCEPT !.pc = "logout_update", !.uid = tok.userId,
                                       !.email = tok.email]]
               /\ last' = last
    /\ UNCHANGED <<now, ticks, secrets, clients, users, nextId, wrongCount,
                   cleanLogin, loggedOut>>

(* LogoutUpdate refusing a user who has no session to end *)
LogoutUpdateIfSession(p) ==
    /\ req[p].pc = "logout_update"
    /\ IF \E e \in EmailsOfId(req[p].uid) : users[e].refresh_token # NoToken
       THEN /\ users' = UpdateSession(req[p].uid, NoToken, NullTs)
            /\ last' = Response(req[p], 200, "Logout successful", NoPair)
            /\ loggedOut' = [e \in Emails |->
                                IF e \in EmailsOfId(req[p].uid) THEN TRUE
                                ELSE loggedOut[e]]
       ELSE /\ users' = users
            /\ last' = Response(req[p], 400, "Not logged in", NoPair)
            /\ loggedOut' = loggedOut
    /\ req' = [req EXCEPT ![p] = Idle]
    /\ UNCHANGED <<now, ticks, secrets, clients, nextId, wrongCount, cleanLogin>>

(* UPDATE users SET refresh_token = NULL, refresh_token_expires = NULL, then 200 *)
LogoutUpdate(p) ==
    /\ req[p].pc = "logout_update"
    /\ users' = UpdateSession(req[p].uid, NoToken, NullTs)
    /\ last' = Response(req[p], 200, "Logout successful", NoPair)
    /\ req' = [req EXCEPT ![p] = Idle]
    /\ loggedOut' = [e \in Emails |->
                        IF e \in EmailsOfId(req[p].uid) THEN TRUE ELSE loggedOut[e]]
    /\ UNCHANGED <<now, ticks, secrets, clients, nextId, wrongCount, cleanLogin>>

-----------------------------------------------------------------------------
(* The server: requests arrive on any free connection and interleave at
   their awaits.  At most MaxRequests requests arrive. *)

(* A request is served on the first connection that is free *)
Picks(p) == p = "c1" \/ ~Free("c1")

Arrival == arrivals < MaxRequests /\ arrivals' = arrivals + 1

Step == arrivals' = arrivals

Next ==
    \/ Tick
    \/ \E p \in Procs, e \in clients, pw \in RegisterPasswords :
            Arrival /\ Picks(p) /\ RegisterSelect(p, e, pw)
    \/ \E p \in Procs : Step /\ RegisterInsert(p)
    \/ \E p \in Procs : Step /\ RegisterStore(p)
    \/ \E p \in Procs, e \in clients, pw \in LoginPasswords :
            Arrival /\ Picks(p) /\ LoginSelect(p, e, pw)
    \/ \E p \in Procs : Step /\ LoginCompare(p)
    \/ \E p \in Procs : Step /\ LoginFail(p)
    \/ \E p \in Procs : Step /\ LoginReset(p)
    \/ \E p \in Procs : Step /\ LoginStore(p)
    \/ \E p \in Procs, tok \in Held : Arrival /\ Picks(p) /\ RefreshVerify(p, tok)
    \/ \E p \in Procs : Step /\ RefreshSelect(p)
    \/ \E p \in Procs : Step /\ RefreshStore(p)
    \/ \E p \in Procs, tok \in Held : Arrival /\ Picks(p) /\ LogoutAuthenticate(p, tok)
    \/ \E p \in Procs : Step /\ LogoutUpdate(p)

Spec == Init /\ [][Next]_vars

(* The same server with one request at a time, and any number of them: a
   request arrives only when no other is being served. *)
OneAtATime == Quiet /\ arrivals' = arrivals

SeqNext ==
    \/ Tick
    \/ \E p \in Procs, e \in clients, pw \in RegisterPasswords :
            OneAtATime /\ Picks(p) /\ RegisterSelect(p, e, pw)
    \/ \E p \in Procs : Step /\ RegisterInsert(p)
    \/ \E p \in Procs : Step /\ RegisterStore(p)
    \/ \E p \in Procs, e \in clients, pw \in LoginPasswords :
            OneAtATime /\ Picks(p) /\ LoginSelect(p, e, pw)
    \/ \E p \in Procs : Step /\ LoginCompare(p)
    \/ \E p \in Procs : Step /\ LoginFail(p)
    \/ \E p \in Procs : Step /\ LoginReset(p)
    \/ \E p \in Procs : Step /\ LoginStore(p)
    \/ \E p \in Procs, tok \in Held : OneAtATime /\ Picks(p) /\ RefreshVerify(p, tok)
    \/ \E p \in Procs : Step /\ RefreshSelect(p)
    \/ \E p \in Procs : Step /\ RefreshStore(p)
    \/ \E p \in Procs, tok \in Held : OneAtATime /\ Picks(p) /\ LogoutAuthenticate(p, tok)
    \/ \E p \in Procs : Step /\ LogoutUpdate(p)

SeqSpec == Init /\ [][SeqNext]_vars

-----------------------------------------------------------------------------
(* The TokenManager alone: any two secrets, tokens minted for any user id
   and email at any instant, and the clock. *)

UserIds == 1..2

TokenInit ==
    /\ now = 1000
    /\ ticks = 0
    /\ secrets \in [access : SecretValues, refresh : SecretValues]
    /\ clients = {}
    /\ users = [e \in Emails |-> NoRow]
    /\ nextId = 1
    /\ req = [p \in Procs |-> Idle]
    /\ last = NoResponse
    /\ arrivals = 0
    /\ wrongCount = [e \in Emails |-> 0]
    /\ cleanLogin = [e \in Emails |-> FALSE]
    /\ loggedOut = [e \in Emails |-> FALSE]

(* generateTokenPair(id, e) is called; the call's arguments are kept *)
Mint(id, e) ==
    /\ last' = [NoResponse EXCEPT !.op = "mint", !.email = e,
                                  !.out = generateTokenPair(id, e, now)]
    /\ req' = [req EXCEPT !["c1"] = [Idle EXCEPT !.op = "mint", !.uid = id,
                                                !.email = e]]
    /\ UNCHANGED <<now, ticks, secrets, clients, users, nextId, arrivals,
                   wrongCount, cleanLogin, loggedOut>>

TokenNext ==
    \/ Tick
    \/ \E id \in UserIds, e \in Emails : Mint(id, e)

TokenSpec == TokenInit /\ [][TokenNext]_vars

-----------------------------------------------------------------------------
(* The server with a store that can fail: an awaited pool.query may reject
   (a lost connection, a timeout), the write it carried is not made, and
   control passes to the handler's catch.  The run starts from an empty
   table, or from an account one wrong password away from the lock. *)

MaxBurst == 2

(* The message of each handler's catch; refreshToken's catch answers 401 *)
CatchStatus(op) == IF op = "refresh" THEN 401 ELSE 500

CatchMessage(op) ==
    CASE op = "register" -> "Registration failed"
      [] op = "login"    -> "Login failed"
      [] op = "refresh"  -> "Token refresh failed"
      [] OTHER           -> "Logout failed"

(* The first SELECT of register rejects *)
RegisterSelectFails(p, e, pw) ==
    /\ Free(p)
    /\ last' = Response([Idle EXCEPT !.op = "register", !.email = e, !.password = pw],
                        CatchStatus("register"), CatchMessage("register"), NoPair)
    /\ UNCHANGED <<now, ticks, secrets, clients, users, nextId, req, wrongCount,
                   cleanLogin, loggedOut>>

(* The first SELECT of login rejects *)
LoginSelectFails(p, e, pw) ==
    /\ Free(p)
    /\ last' = Response([Idle EXCEPT !.op = "login", !.email = e, !.password = pw],
                        CatchStatus("login"), CatchMessage("login"), NoPair)
    /\ UNCHANGED <<now, ticks, secrets, clients, users, nextId, req, wrongCount,
                   cleanLogin, loggedOut>>

(* The query a request is waiting for rejects: the INSERT or an UPDATE of
   register, an UPDATE of login, the SELECT or the UPDATE of refreshToken,
   the UPDATE of logout *)
QueryFails(p) ==
    /\ req[p].pc \in {"register_insert", "register_store", "login_fail",
                      "login_reset", "login_store", "refresh_select",
                      "refresh_store", "logout_update"}
    /\ last' = Response(req[p], CatchStatus(req[p].op), CatchMessage(req[p].op), NoPair)
    /\ req' = [req EXCEPT ![p] = Idle]
    /\ UNCHANGED <<now, ticks, secrets, clients, users, nextId, wrongCount,
                   cleanLogin, loggedOut>>

(* After register at the first instant and four wrong passwords *)
NearLockInit ==
    /\ now = 1000
    /\ ticks = 0
    /\ secrets \in {[access |-> "k1", refresh |-> k] : k \in SecretValues}
    /\ clients = {"a@x.com"}
    /\ users = [e \in Emails |->
                    IF e = "a@x.com"
                    THEN [NoRow EXCEPT
                            !.id = 1,
                            !.password_hash = BcryptHash("Secur3!Pass", SaltRounds),
                            !.refresh_token = generateRefreshToken(1, 1000),
                            !.refresh_token_expires = 1000 + RefreshMs,
                            !.failed_login_attempts = LockThreshold - 1]
                    ELSE NoRow]
    /\ nextId = 2
    /\ req = [p \in Procs |-> Idle]
    /\ last = Response([Idle EXCEPT !.op = "login", !.email = "a@x.com",
                                    !.password = "wrong"],
                       401, "Invalid credentials", NoPair)
    /\ arrivals = 0
    /\ wrongCount = [e \in Emails |-> IF e = "a@x.com" THEN LockThreshold - 1 ELSE 0]
    /\ cleanLogin = [e \in Emails |-> FALSE]
    /\ loggedOut = [e \in Emails |-> FALSE]

FaultInit == Init \/ NearLockInit

Burst == arrivals < MaxBurst /\ arrivals' = arrivals + 1

FaultNext ==
    \/ Tick
    \/ \E p \in Procs, e \in clients, pw \in RegisterPasswords :
            Burst /\ Picks(p) /\ RegisterSelect(p, e, pw)
    \/ \E p \in Procs, e \in clients, pw \in RegisterPasswords :
            Burst /\ Picks(p) /\ RegisterSelectFails(p, e, pw)
    \/ \E p \in Procs : Step /\ RegisterInsert(p)
    \/ \E p \in Procs : Step /\ RegisterStore(p)
    \/ \E p \in Procs, e \in clients, pw \in LoginPasswords :
            Burst /\ Picks(p) /\ LoginSelect(p, e, pw)
    \/ \E p \in Procs, e \in clients, pw \in LoginPasswords :
            Burst /\ Picks(p) /\ LoginSelectFails(p, e, pw)
    \/ \E p \in Procs : Step /\ LoginCompare(p)
    \/ \E p \in Procs : Step /\ LoginFail(p)
    \/ \E p \in Procs : Step /\ LoginReset(p)
    \/ \E p \in Procs : Step /\ LoginStore(p)
    \/ \E p \in Procs, tok \in Held : Burst /\ Picks(p) /\ RefreshVerify(p, tok)
    \/ \E p \in Procs : Step /\ RefreshSelect(p)
    \/ \E p \in Procs : Step /\ RefreshStore(p)
    \/ \E p \in Procs, tok \in Held : Burst /\ Picks(p) /\ LogoutAuthenticate(p, tok)
    \/ \E p \in Procs : Step /\ LogoutUpdate(p)
    \/ \E p \in Procs : Step /\ QueryFails(p)

FaultSpec == FaultInit /\ [][FaultNext]_vars

-----------------------------------------------------------------------------
(* The server with two accounts and both protected routes.  The run starts
   after the first account has registered, or after both have. *)

(* authenticate: no Authorization header, or one that is not 'Bearer ...' *)
AuthenticateNoToken(p, route, scheme) ==
    /\ Free(p)
    /\ scheme = "none" \/ scheme # "Bearer"
    /\ last' = Response([Idle EXCEPT !.op = route], 401, "No token provided", NoPair)
    /\ UNCHANGED <<now, ticks, secrets, clients, users, nextId, req, wrongCount,
                   cleanLogin, loggedOut>>

(* GET /me: authenticate, then the handler answers with req.user *)
Me(p, tok) ==
    /\ Free(p)
    /\ LET r0 == [Idle EXCEPT !.op = "me", !.presented = tok]
       IN IF ~verifyAccessToken(tok, now)
          THEN last' = Response(r0, 401, "Invalid or expired token", NoPair)
          ELSE last' = Response([r0 EXCEPT !.uid = Decoded(tok).userId,
                                           !.email = Decoded(tok).email],
                                200, "", NoPair)
    /\ UNCHANGED <<now, ticks, secrets, clients, users, nextId, req, wrongCount,
                   cleanLogin, loggedOut>>

(* The row of an account that registered at the first instant *)
RegisteredRow(id, e) ==
    [NoRow EXCEPT !.id = id,
                  !.password_hash = BcryptHash("Secur3!Pass", SaltRounds),
                  !.refresh_token = generateRefreshToken(id, 1000),
                  !.refresh_token_expires = 1000 + RefreshMs]

(* The 201 it was answered *)
RegisteredAnswer(id, e) ==
    Response([Idle EXCEPT !.op = "register", !.email = e, !.password = "Secur3!Pass"],
             201, "User registered successfully", generateTokenPair(id, e, 1000))

AccountsInit ==
    /\ now = 1000
    /\ ticks = 0
    /\ secrets \in {[access |-> "k1", refresh |-> k] : k \in SecretValues}
    /\ clients = Emails
    /\ users = [e \in Emails |->
                    IF e = "a@x.com" THEN RegisteredRow(1, e) ELSE NoRow]
    /\ nextId = 2
    /\ last = RegisteredAnswer(1, "a@x.com")
    /\ req = [p \in Procs |-> Idle]
    /\ arrivals = 0
    /\ wrongCount = [e \in Emails |-> 0]
    /\ cleanLogin = [e \in Emails |-> FALSE]
    /\ loggedOut = [e \in Emails |-> FALSE]

AccountsNext ==
    \/ Quiet /\ Tick
    \/ \E p \in Procs, e \in clients, pw \in RegisterPasswords :
            Burst /\ Picks(p) /\ RegisterSelect(p, e, pw)
    \/ \E p \in Procs : Step /\ RegisterInsert(p)
    \/ \E p \in Procs : Step /\ RegisterStore(p)
    \/ \E p \in Procs, e \in clients, pw \in LoginPasswords :
            Burst /\ Picks(p) /\ LoginSelect(p, e, pw)
    \/ \E p \in Procs : Step /\ LoginCompare(p)
    \/ \E p \in Procs : Step /\ LoginFail(p)
    \/ \E p \in Procs : Step /\ LoginReset(p)
    \/ \E p \in Procs : Step /\ LoginStore(p)
    \/ \E p \in Procs, tok \in Held : Burst /\ Picks(p) /\ RefreshVerify(p, tok)
    \/ \E p \in Procs : Step /\ RefreshSelect(p)
    \/ \E p \in Procs : Step /\ RefreshStore(p)
    \/ \E p \in Procs, route \in {"logout", "me"}, scheme \in {"none", "Basic"} :
            Burst /\ Picks(p) /\ AuthenticateNoToken(p, route, scheme)
    \/ \E p \in Procs, tok \in Held : Burst /\ Picks(p) /\ LogoutAuthenticate(p, tok)
    \/ \E p \in Procs : Step /\ LogoutUpdate(p)
    \/ \E p \in Procs, tok \in Held : Burst /\ Picks(p) /\ Me(p, tok)

AccountsSpec == AccountsInit /\ [][AccountsNext]_vars

-----------------------------------------------------------------------------
(* What the properties below speak of *)

(* The instants the clock can show *)
Instants ==
    LET steps == {x \in [Deltas -> 0..MaxTicks] :
                    x[500] + x[LockMs] + x[RefreshMs] <= MaxTicks}
    IN {1000 + x[500] * 500 + x[LockMs] * LockMs + x[RefreshMs] * RefreshMs :
            x \in steps}

(* The instants up to now: when a token in existence can have been signed *)
Past == {i \in Instants : i <= now}

(* A refresh call with this token, served at instant t with no other request
   in between, returns a new pair: lines 169-195 all pass. *)
RefreshAccepts(rows, tok, t) ==
    /\ verifyRefreshToken(tok, t)
    /\ \E e \in Emails :
        /\ rows[e].id = tok.userId
        /\ rows[e].id # 0
        /\ ~RefreshRejected(rows[e], tok, t)

(* Every refresh token the server can have signed for user id by now, and
   the tokens clients hold that name that user *)
RefreshUniverse(id) ==
    {tok \in Held : tok.userId = id}
    \cup {generateRefreshToken(id, t) : t \in Past}

-----------------------------------------------------------------------------
(* C1: with one request at a time, once five wrong-password logins in a row
   have been counted for an account (none since the counter was last reset)
   the account carries a lock, and every login call that arrives before the
   stored accountLockedUntil is answered 403, whatever its password. *)
C1_LockoutAfterFiveFailures ==
    /\ \A e \in Emails :
        (Exists(e) /\ wrongCount[e] >= LockThreshold) =>
            /\ users[e].account_locked_until # NullTs
            /\ users[e].failed_login_attempts = wrongCount[e]
    /\ (last.op = "login" /\ last.lockedAtCall) => last.status = 403

(* C1's case: the sixth call, with the right password, within the window *)
C1_Witness ==
    /\ last.op = "login"
    /\ last.lockedAtCall
    /\ last.status = 403
    /\ last.password = "Secur3!Pass"
    /\ wrongCount[last.email] = LockThreshold
    /\ users[last.email].account_locked_until > now

(* C2: a refresh call that arrives after a refresh of the same token has
   returned a new pair is answered 401. *)
C2_RotationIsSingleUse ==
    (last.op = "refresh" /\ last.late) => last.status = 401

(* C3: of the refresh calls of one token that are served at the same time, at
   most one returns a new pair: none returns 200 after a peer has. *)
C3_ConcurrentRefreshOneWinner ==
    ~(last.op = "refresh" /\ last.status = 200 /\ last.peerWon)

(* C4: the stored counter of an unlocked account is the number of
   wrong-password logins completed since it was last reset. *)
C4_FailedLoginsNotUndercounted ==
    \A e \in Emails :
        (Exists(e) /\ users[e].account_locked_until = NullTs) =>
            users[e].failed_login_attempts = wrongCount[e]

(* C5: while a login has returned success and no failed login has begun
   since, the counter is 0 and the lock is null. *)
C5_CleanAfterSuccessfulLogin ==
    \A e \in Emails :
        cleanLogin[e] =>
            /\ users[e].failed_login_attempts = 0
            /\ users[e].account_locked_until = NullTs

(* C6: a successful refresh returns a refresh token other than the one
   submitted. *)
C6_RefreshReturnsNewToken ==
    (last.op = "refresh" /\ last.status = 200) =>
        last.out.refreshToken # last.presented

(* C7: when a login succeeds for a user who had a stored refresh token, and
   returns a refresh token whose signed lifetime has not run out, then right
   after it a refresh with the old token would fail and a refresh with the
   returned token would succeed. *)
C7_LoginRevokesPreviousSession ==
    [][\A p \in Procs :
        (/\ req[p].pc = "login_store"
         /\ req'[p].pc = "idle"
         /\ users[req[p].email].refresh_token # NoToken
         /\ verifyRefreshToken(req[p].out.refreshToken, now))
        => /\ ~RefreshAccepts(users', users[req[p].email].refresh_token, now')
           /\ RefreshAccepts(users', req[p].out.refreshToken, now')]_vars

(* C8: from the completion of a logout until a login or register succeeds,
   the stored refresh token and expiry are null and no token a client holds
   is accepted by refresh. *)
C8_LogoutRevokesSession ==
    \A e \in Emails :
        loggedOut[e] =>
            /\ users[e].refresh_token = NoToken
            /\ users[e].refresh_token_expires = NullTs
            /\ \A tok \in Held : ~RefreshAccepts(users, tok, now)

(* C9: for every user, the tokens a refresh call would accept now are at most
   one, and that one is the stored refresh token with its stored expiry not
   passed. *)
C9_AtMostOneValidRefreshToken ==
    \A e \in Emails :
        LET valid == {tok \in RefreshUniverse(users[e].id) :
                        RefreshAccepts(users, tok, now)}
        IN /\ Cardinality(valid) <= 1
           /\ \A tok \in valid :
                /\ tok = users[e].refresh_token
                /\ now <= users[e].refresh_token_expires

(* C9's case: a token is accepted while another, correctly signed and
   unexpired one for the same user is not *)
C9_Witness ==
    \E e \in Emails :
        /\ RefreshAccepts(users, users[e].refresh_token, now)
        /\ \E tok \in RefreshUniverse(users[e].id) :
            /\ tok # users[e].refresh_token
            /\ verifyRefreshToken(tok, now)

(* C10: whatever the two secrets are (equal or not), verifyAccessToken
   rejects the refresh token and verifyRefreshToken rejects the access token
   of every pair the TokenManager makes, for every user id and email, at
   every later instant. *)
C10_TokenTypeSeparation ==
    last.op = "mint" =>
        /\ ~verifyAccessToken(last.out.refreshToken, now)
        /\ ~verifyRefreshToken(last.out.accessToken, now)

(* C10's case: both secrets are the same and the tokens are unexpired, so
   the signature check alone lets both through *)
C10_Witness ==
    /\ last.op = "mint"
    /\ secrets.access = secrets.refresh
    /\ JwtVerify(last.out.refreshToken, secrets.access, now)
    /\ JwtVerify(last.out.accessToken, secrets.refresh, now)

(* C11: while an account's lock is in force (account_locked_until is not null
   and now is before it), no login for it gets as far as bcrypt.compare, and
   a login call for it is answered 403 in the step it arrives, with the whole
   users table (counter, lock, refresh token, its expiry, last_login) as it
   was. *)
C11_LockedLoginChangesNothing ==
    [][\A e \in Emails :
        (users[e].account_locked_until # NullTs /\ now < users[e].account_locked_until)
        => /\ \A p \in Procs :
                ~(req[p].pc = "idle" /\ req'[p].op = "login" /\ req'[p].email = e)
           /\ (req' = req /\ last' # last /\ last'.op = "login" /\ last'.email = e)
                => (last'.status = 403 /\ users' = users)]_vars

(* C11's case: a wrong-password login answered 403 has left the counter at
   the threshold: it was not counted *)
C11_Witness ==
    /\ last.op = "login"
    /\ last.status = 403
    /\ last.password = "wrong"
    /\ users[last.email].failed_login_attempts = LockThreshold
    /\ wrongCount[last.email] = LockThreshold
    /\ now < users[last.email].account_locked_until

(* What a login for an email with no record is answered *)
NoUserAnswer == <<LoginNoUser(Idle).status, LoginNoUser(Idle).message>>

(* A login response to a call that did not present the password of an
   existing account: unknown email, or wrong password *)
FailedLoginAnswered ==
    /\ last.op = "login"
    /\ (~Exists(last.email)
        \/ ~BcryptCompare(last.password, users[last.email].password_hash))

(* C12 as stated: every login with a wrong password, however many came
   before it, is answered exactly as a login for an email with no record. *)
C12_NoUserExistenceOracle ==
    FailedLoginAnswered => <<last.status, last.message>> = NoUserAnswer

(* C12 amended: a login with a wrong password for an account that is not
   locked when the call arrives is answered exactly as a login for an email
   with no record; once the account is locked the answer is 403. *)
C12_NoOracleWhileUnlocked ==
    /\ (FailedLoginAnswered /\ ~last.lockedAtCall)
            => <<last.status, last.message>> = NoUserAnswer
    /\ (FailedLoginAnswered /\ last.lockedAtCall)
            => (Exists(last.email) /\ last.status = 403)

(* C12's case: a wrong password for an existing, unlocked account *)
C12_Witness ==
    /\ last.op = "login"
    /\ Exists(last.email)
    /\ ~BcryptCompare(last.password, users[last.email].password_hash)
    /\ ~last.lockedAtCall
    /\ last.status = 401
    /\ wrongCount[last.email] >= 1

(* C13: when a refresh call comes to its check of the stored row, it goes on
   to a new pair exactly when the user's stored refresh token is the
   presented one and the stored expiry has not passed; in every other case
   it is answered 401 there and then and the table is left as it was, though
   the presented token has passed verifyRefreshToken. *)
C13_RefreshChecksStoredToken ==
    [][\A p \in Procs :
        (req[p].pc = "refresh_select" /\ req'[p].pc # "refresh_select") =>
            IF \E e \in Emails :
                    /\ users[e].id = req[p].uid
                    /\ users[e].id # 0
                    /\ users[e].refresh_token = req[p].presented
                    /\ now <= DateOf(users[e].refresh_token_expires)
            THEN /\ req'[p].pc = "refresh_store"
                 /\ last' = last
            ELSE /\ req'[p].pc = "idle"
                 /\ last'.op = "refresh"
                 /\ last'.presented = req[p].presented
                 /\ last'.status = 401
                 /\ users' = users]_vars

(* C13's case: a token whose signature, type and embedded expiry are all
   good is refused because another token is stored *)
C13_Witness ==
    /\ last.op = "refresh"
    /\ last.status = 401
    /\ verifyRefreshToken(last.presented, now)
    /\ \E e \in Emails :
        /\ users[e].id = last.presented.userId
        /\ users[e].refresh_token # NoToken
        /\ users[e].refresh_token # last.presented
        /\ now <= users[e].refresh_token_expires

(* C14: a register call that ends without creating the account, while the
   store has a record with its email, is answered 409 Conflict, whether the
   record was there when the call arrived or a concurrent register created
   it first. *)
C14_RegisterConflict ==
    (last.op = "register" /\ last.status # 201 /\ Exists(last.email))
        => last.status = 409

(* C15: a call that ends with an error has written nothing: a register that
   reports failure has not inserted a record that is still there, and a
   login that reports failure is not past its UPDATE that resets the counter
   and the lock. *)
C15_NoPartialStateOnError ==
    [][\A p \in Procs :
        (req[p].pc # "idle" /\ req'[p].pc = "idle" /\ last'.status >= 400) =>
            /\ req[p].op = "register" =>
                    ~\E e \in Emails : users'[e].id = req[p].uid /\ req[p].uid # 0
            /\ req[p].op = "login" => req[p].pc # "login_store"]_vars

(* C16: every step that changes a row's failed_login_attempts leaves it with
   the lock that belongs to the new counter (null below the threshold, 15
   minutes after some instant up to now from the threshold on), and every
   step that changes its refresh_token leaves it with that token's expiry
   (null with a null token, else 7 days after the instant the token was
   signed); so in every state, also after a request was cut short by a
   failing query, the lock is set exactly when the counter is at the
   threshold or above and the expiry is null exactly when the token is. *)
C16_FieldsWrittenTogether ==
    [][\A e \in Emails :
        /\ users'[e].failed_login_attempts # users[e].failed_login_attempts =>
                IF users'[e].failed_login_attempts >= LockThreshold
                THEN \E t \in Instants :
                        /\ t <= now
                        /\ users'[e].account_locked_until = t + LockMs
                ELSE users'[e].account_locked_until = NullTs
        /\ users'[e].refresh_token # users[e].refresh_token =>
                IF users'[e].refresh_token = NoToken
                THEN users'[e].refresh_token_expires = NullTs
                ELSE /\ users'[e].refresh_token_expires # NullTs
                     /\ NowSec(users'[e].refresh_token_expires - RefreshMs)
                            = users'[e].refresh_token.iat
        /\ (users'[e].account_locked_until # NullTs)
                <=> (users'[e].failed_login_attempts >= LockThreshold)
        /\ (users'[e].refresh_token = NoToken)
                <=> (users'[e].refresh_token_expires = NullTs)]_vars

(* C16's case: the account was locked by the write of a fifth failure, and a
   later login was cut short by a failing query *)
C16_Witness ==
    /\ last.op = "login"
    /\ last.status = 500
    /\ users[last.email].failed_login_attempts = LockThreshold
    /\ users[last.email].account_locked_until # NullTs
    /\ users[last.email].refresh_token # NoToken

(* C17: in every state a row whose account_locked_until is not null has
   failed_login_attempts >= 5; and after wrong-password logins that brought
   the counter to less than 5 the row has that counter and a null lock, so
   the account is open. *)
C17_LockOnlyAtThreshold ==
    \A e \in Emails :
        /\ users[e].account_locked_until # NullTs =>
                users[e].failed_login_attempts >= LockThreshold
        /\ (Exists(e) /\ wrongCount[e] > 0 /\ wrongCount[e] < LockThreshold) =>
                /\ users[e].failed_login_attempts = wrongCount[e]
                /\ users[e].account_locked_until = NullTs
                /\ ~AccountLocked(users[e], now)

(* C17's case: the fourth wrong password in a row has been answered and the
   account is still open *)
C17_Witness ==
    /\ last.op = "login"
    /\ last.status = 401
    /\ Exists(last.email)
    /\ users[last.email].failed_login_attempts = LockThreshold - 1
    /\ users[last.email].account_locked_until = NullTs

(* C18: for an account whose stored lock has run out (account_locked_until
   is not null and now >= account_locked_until), a login call is not answered
   403 but goes on to the password; with the right password it resets the
   counter and clears the lock; and when the call has been answered, the
   stored account_locked_until is null. *)
C18_LockExpiresLazily ==
    [][\A p \in Procs :
        LET e == IF req[p].pc = "idle" THEN last'.email ELSE req[p].email
            ranOut == /\ users[e].account_locked_until # NullTs
                      /\ now >= users[e].account_locked_until
        IN /\ (/\ req' = req /\ last' # last /\ last'.op = "login"
                /\ Exists(e) /\ ranOut)
                    => last'.status # 403
           /\ (req[p].pc = "login_reset" /\ req'[p].pc = "login_store")
                    => /\ users'[e].account_locked_until = NullTs
                       /\ users'[e].failed_login_attempts = 0
           /\ (/\ req[p].op = "login" /\ req[p].pc # "idle"
                /\ req'[p].pc = "idle" /\ ranOut)
                    => users'[e].account_locked_until = NullTs]_vars

(* Some refresh call for the user of this row, with the stored token or
   with any refresh token the server can have signed for the user so far,
   served now with no other request in between, would return a new pair *)
SomeRefreshAccepted(rows, e, t) ==
    \/ RefreshAccepts(rows, rows[e].refresh_token, t)
    \/ \E i \in Instants :
            i <= t /\ RefreshAccepts(rows, generateRefreshToken(rows[e].id, i), t)

(* C19 as stated: for every user with a record, the stored refresh_token is
   null exactly when no refresh call could succeed for that user. *)
C19_TokenNullIffNoSession ==
    \A e \in Emails :
        Exists(e) =>
            ((users[e].refresh_token = NoToken) <=> ~SomeRefreshAccepted(users, e, now))

(* C19 amended: the stored refresh_token goes from null to a token only when
   a register, login or refresh stores its pair, and from a token to null
   only when a logout completes; after every step, while it is null no
   refresh call can succeed, and while it is a token some refresh call can
   succeed exactly as long as that token's own signed expiry has not
   passed. *)
C19_TokenNullIffNoSessionStored ==
    [][\A e \in Emails :
        /\ (users[e].refresh_token = NoToken /\ users'[e].refresh_token # NoToken) =>
                \E p \in Procs :
                    /\ req[p].pc \in {"register_store", "login_store", "refresh_store"}
                    /\ req'[p].pc = "idle"
                    /\ last'.status \in {200, 201}
        /\ (users[e].refresh_token # NoToken /\ users'[e].refresh_token = NoToken) =>
                \E p \in Procs :
                    /\ req[p].pc = "logout_update"
                    /\ req'[p].pc = "idle"
                    /\ last'.status = 200
        /\ users'[e].id # 0 =>
                (SomeRefreshAccepted(users', e, now')
                    <=> /\ users'[e].refresh_token # NoToken
                        /\ verifyRefreshToken(users'[e].refresh_token, now'))]_vars

(* C19's case: a token is stored and its time has run out, so that no refresh
   call can succeed *)
C19_Witness ==
    \E e \in Emails :
        /\ Exists(e)
        /\ users[e].refresh_token # NoToken
        /\ ~verifyRefreshToken(users[e].refresh_token, now)
        /\ ~SomeRefreshAccepted(users, e, now)

(* C20: any two refresh calls that are refused, one answered right after the
   other, get the same status and the same message, whatever each was
   refused for. *)
C20_RefreshFailuresIndistinguishable ==
    [][(/\ last.op = "refresh" /\ last.status # 200
        /\ last'.op = "refresh" /\ last'.status # 200)
       => (last'.status = last.status /\ last'.message = last.message)]_vars

(* C21: for every user id u and email e, while the second of the clock is
   before the access token's iat + 15 minutes verifyAccessToken accepts the
   access token of generateTokenPair(u, e) and returns userId u and email e;
   while it is before the refresh token's iat + 7 days verifyRefreshToken
   accepts the refresh token and returns userId u; and the pair says
   expiresIn = 900, the access token's lifetime in seconds. *)
C21_IssueVerifyRoundTrip ==
    last.op = "mint" =>
        LET u == req["c1"].uid
            e == req["c1"].email
            a == last.out.accessToken
            r == last.out.refreshToken
        IN /\ NowSec(now) < a.iat + 15 * 60 =>
                /\ verifyAccessToken(a, now)
                /\ Decoded(a).userId = u
                /\ Decoded(a).email = e
           /\ NowSec(now) < r.iat + 7 * 24 * 60 * 60 =>
                /\ verifyRefreshToken(r, now)
                /\ Decoded(r).userId = u
           /\ last.out.expiresIn = 900
           /\ a.exp - a.iat = last.out.expiresIn

(* C21's case: a pair some time after it was issued, the access token run
   out and the refresh token still verifying with the user id it was issued
   for *)
C21_Witness ==
    /\ last.op = "mint"
    /\ NowSec(now) > last.out.refreshToken.iat
    /\ ~verifyAccessToken(last.out.accessToken, now)
    /\ verifyRefreshToken(last.out.refreshToken, now)
    /\ Decoded(last.out.refreshToken).userId = req["c1"].uid
    /\ req["c1"].uid = 2

(* C22: when a register call is answered 201, the store has exactly one
   record with the call's email, holding a hash of its password; its stored
   refresh token is the one returned, its refresh_token_expires is 7 days
   after the instant of the call at which the token was signed, its counter
   is 0 and its lock null; and, the returned token's own lifetime not having
   run out in the meantime, a refresh with the returned token would
   succeed. *)
C22_RegisterCreatesActiveSession ==
    [][\A p \in Procs :
        (req[p].pc = "register_store" /\ req'[p].pc = "idle") =>
            LET e == req[p].email
                row == users'[e]
            IN /\ last'.op = "register"
               /\ last'.status = 201
               /\ last'.email = e
               /\ row.id # 0
               /\ {x \in Emails : users'[x].id = row.id} = {e}
               /\ BcryptCompare(req[p].password, row.password_hash)
               /\ row.refresh_token = last'.out.refreshToken
               /\ row.refresh_token # NoToken
               /\ \E t \in Instants :
                    /\ t <= now
                    /\ row.refresh_token_expires = t + 7 * 24 * 60 * 60 * 1000
                    /\ row.refresh_token.iat = NowSec(t)
               /\ row.failed_login_attempts = 0
               /\ row.account_locked_until = NullTs
               /\ verifyRefreshToken(last'.out.refreshToken, now')
                    => RefreshAccepts(users', last'.out.refreshToken, now')]_vars

(* C22's case: a register has just been answered 201 and a refresh with the
   token it returned would succeed *)
C22_Witness ==
    /\ last.op = "register"
    /\ last.status = 201
    /\ users[last.email].refresh_token = last.out.refreshToken
    /\ users[last.email].refresh_token_expires = now + RefreshMs
    /\ RefreshAccepts(users, last.out.refreshToken, now)

(* C23: whatever the stored state of the user (a session or none, locked or
   not), the logout handler answers 200 and leaves the table as it was but
   for that user's refresh_token and refresh_token_expires, which are null;
   so a logout of a user whose two fields are null already changes
   nothing. *)
C23_LogoutIdempotent ==
    [][\A p \in Procs :
        (req[p].pc = "logout_update" /\ req'[p].pc = "idle") =>
            /\ last'.op = "logout"
            /\ last'.status = 200
            /\ \A e \in Emails :
                    users'[e] =
                        IF users[e].id = req[p].uid /\ users[e].id # 0
                        THEN [users[e] EXCEPT !.refresh_token = NoToken,
                                              !.refresh_token_expires = NullTs]
                        ELSE users[e]
            /\ (\A e \in Emails :
                    users[e].id = req[p].uid =>
                        /\ users[e].refresh_token = NoToken
                        /\ users[e].refresh_token_expires = NullTs)
                => users' = users]_vars

(* C23's case: a logout has been answered 200 and a second one, for the same
   user, is being served with no session left to end *)
C23_Witness ==
    /\ last.op = "logout"
    /\ last.status = 200
    /\ \E p \in Procs :
        /\ req[p].pc = "logout_update"
        /\ req[p].uid = last.presented.userId
        /\ \E e \in Emails :
            /\ users[e].id = req[p].uid
            /\ users[e].refresh_token = NoToken
            /\ loggedOut[e]

(* C24: a request that ends because the query it was waiting for failed is
   answered 500, whichever operation it belongs to. *)
C24_StoreFailureIsInternal ==
    [][\A p \in Procs :
        (/\ req[p].pc \in {"register_insert", "register_store", "login_fail",
                           "login_reset", "login_store", "refresh_select",
                           "refresh_store", "logout_update"}
         /\ req'[p].pc = "idle"
         /\ last'.op = req[p].op
         /\ last'.message = CatchMessage(req[p].op))
        => last'.status = 500]_vars

(* The accounts a request in flight addresses: the email of its body for
   register and login, the subject of its verified token for refresh and logout *)
Addressed(r) ==
    IF r.op \in {"register", "login"}
    THEN {r.email}
    ELSE {e \in Emails : users[e].id = r.uid /\ r.uid # 0}

(* C25: every step of every operation changes at most the record of the
   account its request addresses; the record of every other account, present
   or absent, is left as it was, however the requests interleave. *)
C25_OnlyAddressedRecord ==
    [][\A e \in Emails :
        users'[e] # users[e]
        => \E p \in Procs :
            /\ req[p].pc # "idle"
            /\ req'[p] # req[p]
            /\ e \in Addressed(req[p])
            /\ \A o \in Emails \ {e} : users'[o] = users[o]]_vars

(* C25 witness: both accounts are registered, one has logged out and holds
   no session, and the other still holds the session it was given. *)
C25_Witness ==
    \E e \in Emails, o \in Emails :
        /\ o # e
        /\ users[e].id # 0
        /\ users[o].id # 0
        /\ loggedOut[e]
        /\ users[e].refresh_token = NoToken
        /\ users[o].refresh_token = generateRefreshToken(users[o].id, 1000)
        /\ users[o].refresh_token_expires = 1000 + RefreshMs

(* C26: a login whose password did not match computes the counter it read
   plus 1 and, when that reaches 5, a lock of the clock at that moment plus
   15 minutes, whatever the counter, and no lock below 5; its UPDATE writes
   that counter and that lock together, so the stored counter grows by
   exactly 1 and a lock just written ends at most 15 minutes from now. *)
C26_FixedLockDuration ==
    [][\A p \in Procs :
        LET e == req[p].email
        IN /\ (req[p].pc = "login_compare" /\ req'[p].pc = "login_fail")
                => /\ req'[p].newFailed = users[e].failed_login_attempts + 1
                   /\ req'[p].lockUntil =
                        IF req'[p].newFailed >= 5
                        THEN now + 15 * 60 * 1000
                        ELSE NullTs
           /\ (req[p].pc = "login_fail" /\ req'[p].pc = "idle")
                => /\ users'[e].failed_login_attempts =
                            users[e].failed_login_attempts + 1
                   /\ users'[e].failed_login_attempts = req[p].newFailed
                   /\ users'[e].account_locked_until = req[p].lockUntil
                   /\ users'[e].failed_login_attempts >= 5
                        => /\ users'[e].account_locked_until # NullTs
                           /\ users'[e].account_locked_until <= now' + 15 * 60 * 1000
                   /\ users'[e].failed_login_attempts < 5
                        => users'[e].account_locked_until = NullTs]_vars

(* C26 witness: the sixth wrong password in a row, given after the first lock
   ran out, has just been answered and the account is locked for 15 minutes
   from now. *)
C26_Witness ==
    /\ last.op = "login"
    /\ last.status = 401
    /\ Exists(last.email)
    /\ users[last.email].failed_login_attempts = LockThreshold + 1
    /\ users[last.email].account_locked_until = now + LockMs

(* A token the access secret signed, not yet expired, of type access *)
Verified(tok, t) ==
    /\ tok.key = secrets.access
    /\ NowSec(t) < tok.exp
    /\ tok.type = "access"

(* C27: the logout handler starts, and /me answers 200, only for a bearer
   token that is signed with the access secret, unexpired and of type access;
   the user logout works on, and the one /me reports, is the token's; a
   request to either route without such a token is answered 401 with no
   handler started and the store as it was; and the logout handler's write
   changes only the record whose id the token carries. *)
C27_ProtectedAfterVerification ==
    [][/\ \A p \in Procs :
            /\ (req[p].pc = "idle" /\ req'[p].pc = "logout_update")
                    => /\ Verified(req'[p].presented, now)
                       /\ req'[p].uid = req'[p].presented.userId
            /\ (req[p].pc = "logout_update" /\ req'[p].pc = "idle")
                    => \A e \in Emails :
                            users'[e] # users[e]
                                => users[e].id = req[p].presented.userId
       /\ (last' # last /\ last'.op \in {"logout", "me"} /\ req' = req)
            => IF Verified(last'.presented, now)
               THEN /\ last'.op = "me"
                    /\ last'.status = 200
                    /\ last'.email = last'.presented.email
               ELSE /\ last'.status = 401
                    /\ users' = users]_vars

(* C27 witness: where both secrets are the same, a logout with an unexpired
   refresh token as bearer has been answered 401 and the session it names is
   still stored. *)
C27_Witness ==
    /\ secrets.access = secrets.refresh
    /\ last.op = "logout"
    /\ last.status = 401
    /\ last.presented.type = "refresh"
    /\ JwtVerify(last.presented, secrets.access, now)
    /\ \E e \in Emails : users[e].refresh_token = last.presented

(* C28: a refresh whose UPDATE is still to run when a logout of the same user
   has completed, with no login or register since, does not write a session:
   its last step leaves the stored refresh token and expiry null and answers
   401. *)
C28_LogoutNotUndoneByRefresh ==
    [][\A p \in Procs : \A e \in Emails :
        (/\ req[p].pc = "refresh_store"
         /\ req'[p].pc = "idle"
         /\ users[e].id = req[p].uid
         /\ loggedOut[e])
        => /\ users'[e].refresh_token = NoToken
           /\ users'[e].refresh_token_expires = NullTs
           /\ last'.status = 401]_vars

(* C29: in every state, every record has refresh_token null exactly when its
   refresh_token_expires is null. *)
C29_TokenAndExpiryTogether ==
    \A e \in Emails :
        users[e].refresh_token = NoToken <=> users[e].refresh_token_expires = NullTs

(* C29 witness: a register is between its INSERT and its session UPDATE, the
   record is there and holds neither a token nor an expiry. *)
C29_Witness ==
    \E p \in Procs :
        /\ req[p].pc = "register_store"
        /\ Exists(req[p].email)
        /\ users[req[p].email].refresh_token = NoToken
        /\ users[req[p].email].refresh_token_expires = NullTs

(* C30: the counter of a record goes down only in the step of a login with
   the right password that resets it, and then to 0; the clock passing a lock
   changes no record; and a wrong password given after the lock ran out
   computes a lock of the clock plus 15 minutes and writes it with the
   counter grown by 1, so the account is locked again. *)
C30_LockExpiryKeepsCounter ==
    [][/\ \A e \in Emails :
            users'[e].failed_login_attempts < users[e].failed_login_attempts
                => /\ users'[e].failed_login_attempts = 0
                   /\ users'[e].account_locked_until = NullTs
                   /\ \E p \in Procs :
                        /\ req[p].pc = "login_reset"
                        /\ req[p].email = e
                        /\ BcryptCompare(req[p].password, users[e].password_hash)
       /\ now' # now => users' = users
       /\ \A p \in Procs :
            LET e == req[p].email
                ranOut == /\ users[e].account_locked_until # NullTs
                          /\ users[e].failed_login_attempts >= 5
            IN /\ (req[p].pc = "login_compare" /\ req'[p].pc = "login_fail" /\ ranOut)
                    => req'[p].lockUntil = now + 15 * 60 * 1000
               /\ (req[p].pc = "login_fail" /\ req'[p].pc = "idle" /\ ranOut)
                    => /\ users'[e].failed_login_attempts =
                                users[e].failed_login_attempts + 1
                       /\ users'[e].account_locked_until = req[p].lockUntil
                       /\ users'[e].account_locked_until > users[e].account_locked_until]_vars

(* C30 witness: two wrong passwords, each given after the lock before it ran
   out, have brought the counter to 7, and the account is locked for 15
   minutes from now. *)
C30_Witness ==
    /\ last.op = "login"
    /\ last.status = 401
    /\ Exists(last.email)
    /\ users[last.email].failed_login_attempts = LockThreshold + 2
    /\ users[last.email].account_locked_until = now + LockMs
    /\ wrongCount[last.email] = LockThreshold + 2

(* C31: a login answered at its SELECT (401 for an unknown email, 403 for a
   locked account) changes no record; and every later step of a login whose
   password did not match, up to its 401, leaves refresh_token,
   refresh_token_expires and last_login of its record as they were, so that
   the stored refresh token, if refresh accepted it before the step, is
   accepted after it, whether or not the step locked the account. *)
C31_FailedLoginKeepsSession ==
    [][/\ (/\ req' = req
           /\ last' # last
           /\ last'.op = "login"
           /\ last'.status \in {401, 403})
            => users' = users
       /\ \A p \in Procs :
            (/\ req[p].pc \in {"login_compare", "login_fail"}
             /\ req'[p].pc \in {"login_fail", "idle"}
             /\ req'[p] # req[p])
            => LET e == req[p].email
               IN /\ users'[e].refresh_token = users[e].refresh_token
                  /\ users'[e].refresh_token_expires = users[e].refresh_token_expires
                  /\ users'[e].last_login = users[e].last_login
                  /\ RefreshAccepts(users, users[e].refresh_token, now)
                        => RefreshAccepts(users', users[e].refresh_token, now')]_vars

(* C31 witness: the wrong password that locked the account has just been
   answered 401, and refresh accepts the token stored before it. *)
C31_Witness ==
    /\ last.op = "login"
    /\ last.status = 401
    /\ Exists(last.email)
    /\ users[last.email].failed_login_attempts = LockThreshold
    /\ AccountLocked(users[last.email], now)
    /\ users[last.email].refresh_token # NoToken
    /\ RefreshAccepts(users, users[last.email].refresh_token, now)

(* C32: a step that answers a refresh 401, for whichever reason, and every
   step of a refresh before its UPDATE, leaves every record as it was; so
   the stored token, if refresh accepted it before the step, is accepted
   after it. *)
C32_RejectedRefreshChangesNothing ==
    [][/\ (last' # last /\ last'.op = "refresh" /\ last'.status = 401)
            => /\ users' = users
               /\ \A e \in Emails :
                    RefreshAccepts(users, users[e].refresh_token, now)
                        => RefreshAccepts(users', users[e].refresh_token, now')
       /\ \A p \in Procs :
            (\/ req[p].pc = "idle" /\ req'[p].pc = "refresh_select"
             \/ req[p].pc = "refresh_select" /\ req'[p].pc # "refresh_select")
            => users' = users]_vars

(* C32 witness: a token that a refresh had already replaced was presented
   again, with its signature good and its own expiry not reached, and was
   answered 401; refresh accepts the token that replaced it. *)
C32_Witness ==
    /\ last.op = "refresh"
    /\ last.status = 401
    /\ last.late
    /\ verifyRefreshToken(last.presented, now)
    /\ \E e \in Emails :
        /\ users[e].id = last.presented.userId
        /\ users[e].refresh_token # NoToken
        /\ users[e].refresh_token # last.presented
        /\ RefreshAccepts(users, users[e].refresh_token, now)

(* C33: no step of a refresh changes failed_login_attempts or
   account_locked_until of any record; a refresh that presents the stored
   token of its user before the stored expiry passes its check whatever the
   counter and the lock are; and its UPDATE stores the refresh token of the
   pair it returns with 200. *)
C33_RefreshIgnoresLockout ==
    [][\A p \in Procs :
        /\ (/\ req[p].pc \in {"refresh_select", "refresh_store"}
            /\ req'[p].pc # req[p].pc)
            => \A e \in Emails :
                /\ users'[e].failed_login_attempts = users[e].failed_login_attempts
                /\ users'[e].account_locked_until = users[e].account_locked_until
        /\ (req[p].pc = "refresh_select" /\ req'[p].pc # "refresh_select")
            => \A e \in Emails :
                (/\ users[e].id = req[p].uid
                 /\ users[e].id # 0
                 /\ users[e].refresh_token = req[p].presented
                 /\ now <= users[e].refresh_token_expires)
                => /\ req'[p].pc = "refresh_store"
                   /\ last' = last
        /\ (/\ req[p].pc = "refresh_store"
            /\ req'[p].pc = "idle"
            /\ last'.status = 200)
            => /\ last'.out = req[p].out
               /\ \A e \in Emails :
                    users[e].id = req[p].uid
                        => users'[e].refresh_token = last'.out.refreshToken]_vars

(* C33 witness: a refresh has just returned a new pair for an account that
   is locked, with its counter at 5 or more, and the pair's refresh token is
   the stored one. *)
C33_Witness ==
    /\ last.op = "refresh"
    /\ last.status = 200
    /\ \E e \in Emails :
        /\ users[e].id = last.presented.userId
        /\ users[e].id # 0
        /\ users[e].failed_login_attempts >= LockThreshold
        /\ AccountLocked(users[e], now)
        /\ users[e].refresh_token = last.out.refreshToken

=============================================================================
